---- MODULE Spec2Model ----
(***************************************************************************)
(* Model of src/app.py: the day-by-day back-test loop (lines 131-210),     *)
(* the rolling-return analysis (lines 248-267) and the Monte Carlo stress  *)
(* test (lines 294-322).                                                   *)
(*                                                                         *)
(* Python floats are modelled as exact rationals <<n, d>> (d > 0, lowest   *)
(* terms), so every equality below is an equality of real numbers; float   *)
(* rounding is outside the model.                                          *)
(***************************************************************************)
EXTENDS Integers, Sequences, FiniteSets, TLC

VARIABLES
    \* ---- sidebar parameters (lines 16-75), fixed for a run
    weights,            \* assets[i]['weight'] in percent as typed (line 36)
    initial_capital,    \* line 51
    monthly_cashflow,   \* line 52
    cash_interest_rate, \* line 58
    use_leverage,       \* line 62
    loan_amount,        \* line 63 / 66
    loan_rate,          \* line 64 / 67
    rebalance_mode,     \* line 71
    threshold_mode,     \* line 72
    threshold_pct,      \* line 73 / 75
    \* ---- back-test state (lines 131-210)
    first_prices,       \* data.iloc[0] (line 136)
    date,               \* index value of the row last read from data
    row,                \* prices of that row
    prev_date,          \* index value of the row before it (None on the first row)
    current_cash,       \* line 132
    shares,             \* line 133
    total_invested,     \* line 152
    n_rows,             \* len(history)
    rec,                \* history[-1] (line 209)
    day,                \* the loop body's locals of the last iteration
    \* ---- rolling-return analysis (lines 245-267)
    roll_years,         \* line 245
    net_worth_col,      \* df_res['Net Worth'], each value by its sign
    rolling,            \* outcome of lines 249-267
    \* ---- Monte Carlo stress test (lines 275-322)
    sim_years,          \* line 275
    sim_count,          \* line 276
    mc                  \* the trial loop's locals

cfgvars  == <<weights, initial_capital, monthly_cashflow, cash_interest_rate,
              use_leverage, loan_amount, loan_rate, rebalance_mode,
              threshold_mode, threshold_pct>>
simvars  == <<first_prices, date, row, prev_date, current_cash, shares,
              total_invested, n_rows, rec, day>>
rollvars == <<roll_years, net_worth_col, rolling>>
mcvars   == <<sim_years, sim_count, mc>>
vars     == <<cfgvars, simvars, rollvars, mcvars>>

---------------------------------------------------------------------------
(* Exact arithmetic on rationals <<n, d>>.                                 *)

RECURSIVE GCD(_, _)
GCD(a, b) == IF b = 0 THEN a ELSE GCD(b, a % b)

Abs(n) == IF n < 0 THEN -n ELSE n

Norm(n, d) ==
    LET s == IF d < 0 THEN -1 ELSE 1
        g == GCD(Abs(n), Abs(d))
    IN  <<(s * n) \div g, (s * d) \div g>>

R(n) == <<n, 1>>

\* Sums and products cancel common factors first, to keep the terms small.
RAdd(a, b) ==
    LET g == GCD(a[2], b[2])
    IN  Norm(a[1] * (b[2] \div g) + b[1] * (a[2] \div g), (a[2] \div g) * b[2])

RNeg(a) == <<-a[1], a[2]>>

RSub(a, b) == RAdd(a, RNeg(b))

RMul(a, b) ==
    LET g1 == GCD(Abs(a[1]), b[2])
        g2 == GCD(Abs(b[1]), a[2])
    IN  Norm((a[1] \div g1) * (b[1] \div g2), (a[2] \div g2) * (b[2] \div g1))

RInv(a) == IF a[1] < 0 THEN <<-a[2], -a[1]>> ELSE <<a[2], a[1]>>

RDiv(a, b) == RMul(a, RInv(b))

RLt(a, b) == RSub(a, b)[1] < 0
RLe(a, b) == RSub(a, b)[1] <= 0
RAbs(a)   == <<Abs(a[1]), a[2]>>
Zero       == R(0)

---------------------------------------------------------------------------
(* pandas Timestamp calendar.                                              *)

IsLeap(y) == (y % 4 = 0 /\ y % 100 # 0) \/ y % 400 = 0

DaysInMonth(y, m) ==
    IF m = 2 THEN (IF IsLeap(y) THEN 29 ELSE 28)
    ELSE IF m \in {4, 6, 9, 11} THEN 30 ELSE 31

Tomorrow(dt) ==
    IF dt.d < DaysInMonth(dt.y, dt.m) THEN [dt EXCEPT !.d = dt.d + 1]
    ELSE IF dt.m < 12 THEN [y |-> dt.y, m |-> dt.m + 1, d |-> 1]
    ELSE [y |-> dt.y + 1, m |-> 1, d |-> 1]

RECURSIVE AddDays(_, _)
AddDays(dt, k) == IF k = 0 THEN dt ELSE AddDays(Tomorrow(dt), k - 1)

NoDate == [y |-> 0, m |-> 0, d |-> 0]

---------------------------------------------------------------------------
(* Bounds of the model and the input domains the rows are drawn from.      *)

MaxRows == 3                    \* rows of the price table that are iterated
Gaps    == {1, 2}               \* calendar days between consecutive rows
FirstPrices == {R(2)}           \* prices the first row may quote for an asset
Prices  == {R(1), R(3)}         \* prices a later row may quote for an asset
StartDates == {[y |-> 2023, m |-> 12, d |-> 31], [y |-> 2024, m |-> 1, d |-> 31]}

---------------------------------------------------------------------------
(* Sidebar-derived values (lines 24-47).                                   *)

Assets == DOMAIN weights

Weight(i) == RDiv(R(weights[i]), R(100))

RECURSIVE SumTo(_, _)
SumTo(f, n) == IF n = 0 THEN Zero ELSE RAdd(SumTo(f, n - 1), f[n])

RECURSIVE IntSumTo(_, _)
IntSumTo(f, n) == IF n = 0 THEN 0 ELSE IntSumTo(f, n - 1) + f[n]

total_asset_weight == IntSumTo(weights, Len(weights))

weight_cash == 100 - total_asset_weight

---------------------------------------------------------------------------
(* Initialisation of the back-test (lines 131-152).                        *)

InitialCash ==
    RMul(RAdd(initial_capital, loan_amount), RDiv(R(weight_cash), R(100)))

InitialShares(fp) ==
    [i \in Assets |->
        RDiv(RMul(RAdd(initial_capital, loan_amount), Weight(i)), fp[i])]

monthly_rate == RDiv(loan_rate, R(12))

---------------------------------------------------------------------------
(* The loop body (lines 155-210), step by step.                            *)

\* Timestamp.is_month_start / is_year_start (lines 160, 186)
IsMonthStart(dt) == dt.d = 1
IsYearStart(dt)  == dt.m = 1 /\ dt.d = 1

\* A. line 157
AccrueInterest(cash) ==
    RAdd(cash, RMul(cash, RDiv(cash_interest_rate, R(365))))

\* B. lines 161-169, the effect on current_cash
MonthStartCash(cash, ims) ==
    IF ~ims THEN cash
    ELSE LET c1 == RAdd(cash, monthly_cashflow)
         IN  IF use_leverage THEN RSub(c1, RMul(loan_amount, monthly_rate))
             ELSE c1

\* B. lines 165-166, the effect on total_invested
MonthStartInvested(inv, ims) ==
    IF ims /\ RLt(Zero, monthly_cashflow) THEN RAdd(inv, monthly_cashflow)
    ELSE inv

\* C. lines 172-178
AssetVals(sh, r) == [i \in Assets |-> RMul(sh[i], r[i])]

StockVal(sh, r) == SumTo(AssetVals(sh, r), Len(weights))

\* Faulty variant: the month-start test without the mode test.
FrequencyClauseAnyMode(dt) == IsMonthStart(dt)

\* D. lines 184-186
FrequencyClause(dt) ==
    IF rebalance_mode = "Monthly" /\ IsMonthStart(dt) THEN TRUE
    ELSE IF rebalance_mode = "Yearly" /\ IsYearStart(dt) THEN TRUE
    ELSE FALSE

\* D. lines 188-195
ThresholdClause(asset_vals, total_assets) ==
    /\ threshold_mode
    /\ RLt(Zero, total_assets)
    /\ \E i \in Assets :
          RLt(threshold_pct,
              RAbs(RSub(RDiv(asset_vals[i], total_assets), Weight(i))))

DoRebalance(dt, asset_vals, total_assets) ==
    FrequencyClause(dt) \/ ThresholdClause(asset_vals, total_assets)

\* Faulty variant: the target value converted at the first row's prices.
RebalanceSharesFirstPrices(total_assets, r) ==
    [i \in Assets |-> RDiv(RMul(total_assets, Weight(i)), first_prices[i])]

\* E. lines 200-205
RebalanceShares(total_assets, r) ==
    [i \in Assets |-> RDiv(RMul(total_assets, Weight(i)), r[i])]

\* Faulty variant: the cost of the targets taken from the cash at hand.
RebalanceCashFromCash(total_assets) ==
    RSub(current_cash,
         SumTo([i \in Assets |-> RMul(total_assets, Weight(i))], Len(weights)))

\* E. lines 199, 203, 205, 206
RebalanceCash(total_assets) ==
    RSub(total_assets,
         SumTo([i \in Assets |-> RMul(total_assets, Weight(i))], Len(weights)))

\* One iteration of `for date, row in data.iterrows()` on the row (dt, r).
Iterate(dt, r) ==
    LET ims          == IsMonthStart(dt)
        cash_v       == MonthStartCash(AccrueInterest(current_cash), ims)
        asset_vals   == AssetVals(shares, r)
        total_assets == RAdd(cash_v, StockVal(shares, r))
        net_worth    == RSub(total_assets, loan_amount)
        do_rebalance == DoRebalance(dt, asset_vals, total_assets)
        exec         == do_rebalance /\ RLt(Zero, total_assets)
        cash_out     == IF exec THEN RebalanceCash(total_assets) ELSE cash_v
    IN  /\ total_invested' = MonthStartInvested(total_invested, ims)
        /\ shares' = IF exec THEN RebalanceShares(total_assets, r) ELSE shares
        /\ current_cash' = cash_out
        /\ rec' = [Date |-> dt, NetWorth |-> net_worth,
                   TotalInvested |-> total_invested', Cash |-> cash_out]
        /\ day' = [is_month_start |-> ims, cash |-> cash_v,
                   asset_vals |-> asset_vals, total_assets |-> total_assets,
                   do_rebalance |-> do_rebalance, rebalanced |-> exec]
        /\ n_rows' = n_rows + 1
        /\ UNCHANGED <<cfgvars, first_prices, rollvars, mcvars>>

\* First pass of the loop: the row is data.iloc[0], already read at line 136.
FirstDay ==
    /\ n_rows = 0
    /\ date' = date /\ row' = row /\ prev_date' = NoDate
    /\ Iterate(date, row)

\* Later passes: the next row of the table, `gap` calendar days on.
NextDay(gap, prices) ==
    /\ n_rows > 0
    /\ n_rows < MaxRows
    /\ date' = AddDays(date, gap) /\ row' = prices /\ prev_date' = date
    /\ Iterate(AddDays(date, gap), prices)

NoRec == [Date |-> NoDate, NetWorth |-> Zero, TotalInvested |-> Zero, Cash |-> Zero]
NoDay == [is_month_start |-> FALSE, cash |-> Zero, asset_vals |-> <<>>,
          total_assets |-> Zero, do_rebalance |-> FALSE, rebalanced |-> FALSE]

RollIdle == /\ roll_years = 1 /\ net_worth_col = <<>> /\ rolling = [pc |-> "idle"]
McIdle   == /\ sim_years = 1 /\ sim_count = 1 /\ mc = [pc |-> "idle"]

\* State after lines 131-152 for the given sidebar values and first row.
SimStart(start, fp) ==
    /\ first_prices = fp
    /\ date = start /\ row = fp /\ prev_date = NoDate
    /\ current_cash = InitialCash
    /\ shares = InitialShares(fp)
    /\ total_invested = initial_capital
    /\ n_rows = 0
    /\ rec = NoRec /\ day = NoDay

Leverage(on) ==
    /\ use_leverage = on
    /\ loan_amount = IF on THEN R(100) ELSE Zero
    /\ loan_rate = IF on THEN <<12, 100>> ELSE Zero

Threshold(on) ==
    /\ threshold_mode = on
    /\ threshold_pct = <<5, 100>>

Init ==
    /\ weights \in {<<50, 50>>, <<40, 30>>}
    /\ initial_capital = R(100)
    /\ monthly_cashflow \in {R(-60), Zero, R(20)}
    /\ cash_interest_rate \in {Zero, <<365, 2>>}
    /\ \E on \in BOOLEAN : Leverage(on)
    /\ rebalance_mode \in {"Monthly", "Yearly", "None"}
    /\ \E on \in BOOLEAN : Threshold(on)
    /\ \E start \in StartDates, fp \in [Assets -> FirstPrices] : SimStart(start, fp)
    /\ RollIdle /\ McIdle

Next ==
    \/ FirstDay
    \/ \E gap \in Gaps, prices \in [Assets -> Prices] : NextDay(gap, prices)

Spec == Init /\ [][Next]_vars

\* The buy-and-hold scenario: 50/50, no cash sleeve, 1,000,000, no cash flow,
\* no leverage, no scheduled rebalancing, threshold off.
BHPrices == {R(1), R(2), R(4)}

InitBH ==
    /\ weights = <<50, 50>>
    /\ initial_capital = R(1000000)
    /\ monthly_cashflow = Zero
    /\ cash_interest_rate \in {Zero, <<365, 2>>}
    /\ Leverage(FALSE)
    /\ rebalance_mode = "None"
    /\ Threshold(FALSE)
    /\ \E start \in StartDates, fp \in [Assets -> BHPrices] : SimStart(start, fp)
    /\ RollIdle /\ McIdle

NextBH ==
    \/ FirstDay
    \/ \E gap \in Gaps, prices \in [Assets -> BHPrices] : NextDay(gap, prices)

SpecBH == InitBH /\ [][NextBH]_vars

---------------------------------------------------------------------------
(* Monte Carlo stress test (lines 294-322).  random_rets is sampled with   *)
(* replacement from the historical returns; the model draws each entry     *)
(* when the loop reads it.  `path` is kept by its length, its last entry   *)
(* and whether all its entries are positive.                               *)

MaxSimYears == 1
MaxSimCount == 2
MaxNav      == 350              \* draws that take nav above this are left out
Returns     == {R(-1), Zero, R(1)}

TradingDaysPerYear == 252
CashFlowPeriod     == 21

sim_days == sim_years * TradingDaysPerYear

\* line 310
IsCashFlowStep(d) == (d + 1) % CashFlowPeriod = 0

\* lines 308-312: nav after the return and the periodic flows of step d
NavAfter(nav, ret, d) ==
    LET n1 == RMul(nav, RAdd(R(1), ret))
        n2 == IF IsCashFlowStep(d) THEN RAdd(n1, monthly_cashflow) ELSE n1
    IN  IF IsCashFlowStep(d) /\ use_leverage
        THEN RSub(n2, RDiv(RMul(loan_amount, loan_rate), R(12)))
        ELSE n2

\* Faulty variant: ruin only below zero.
RuinedStrict(nav) == RLt(nav, Zero)

\* line 314
Ruined(nav) == RLe(nav, Zero)

\* lines 295-296: before the first trial
McStart ==
    mc = [pc |-> "loop", i |-> 0, success_count |-> 0, d |-> 0, nav |-> Zero,
          survived |-> TRUE, path_len |-> 0, path_last |-> Zero,
          path_positive |-> TRUE, last_ret |-> Zero, counted |-> FALSE,
          rate |-> Zero]

\* lines 299-305: a trial starts
TrialBegin ==
    /\ mc.pc = "loop" /\ mc.i < sim_count
    /\ mc' = [mc EXCEPT !.pc = IF sim_days = 0 THEN "end" ELSE "steps",
                        !.d = 0, !.nav = initial_capital, !.survived = TRUE,
                        !.path_len = 1, !.path_last = initial_capital,
                        !.path_positive = RLt(Zero, initial_capital),
                        !.last_ret = Zero]
    /\ UNCHANGED <<cfgvars, simvars, rollvars, sim_years, sim_count>>

\* lines 307-316: one pass of `for d in range(sim_days)` with random_rets[d] = ret
TrialStep(ret) ==
    /\ mc.pc = "steps"
    /\ LET nav == NavAfter(mc.nav, ret, mc.d)
       IN  /\ RLe(nav, R(MaxNav))
           /\ mc' = IF Ruined(nav)
                    THEN [mc EXCEPT !.pc = "end", !.nav = Zero, !.survived = FALSE,
                                    !.path_len = @ + 1, !.path_last = Zero,
                                    !.path_positive = FALSE, !.last_ret = ret]
                    ELSE [mc EXCEPT !.pc = IF mc.d + 1 = sim_days THEN "end" ELSE "steps",
                                    !.d = @ + 1, !.nav = nav,
                                    !.path_len = @ + 1, !.path_last = nav,
                                    !.last_ret = ret]
    /\ UNCHANGED <<cfgvars, simvars, rollvars, sim_years, sim_count>>

\* line 318, and the loop's increment of i
TrialEnd ==
    /\ mc.pc = "end"
    /\ mc' = [mc EXCEPT !.pc = "loop", !.i = @ + 1, !.counted = mc.survived,
                        !.success_count = IF mc.survived THEN @ + 1 ELSE @]
    /\ UNCHANGED <<cfgvars, simvars, rollvars, sim_years, sim_count>>

\* line 322
McFinish ==
    /\ mc.pc = "loop" /\ mc.i = sim_count
    /\ mc' = [mc EXCEPT !.pc = "done",
                        !.rate = RMul(RDiv(R(mc.success_count), R(sim_count)), R(100))]
    /\ UNCHANGED <<cfgvars, simvars, rollvars, sim_years, sim_count>>

\* The back-test has run; only its inputs matter to the stress test.
SimDone ==
    /\ weights = <<50, 50>>
    /\ cash_interest_rate = Zero
    /\ rebalance_mode = "None"
    /\ Threshold(FALSE)
    /\ SimStart([y |-> 2023, m |-> 12, d |-> 31], [i \in Assets |-> R(2)])

InitMC ==
    /\ initial_capital = R(100)
    /\ monthly_cashflow \in {R(-60), Zero, R(20)}
    /\ \E on \in BOOLEAN : Leverage(on)
    /\ SimDone
    /\ RollIdle
    /\ sim_years \in 1..MaxSimYears
    /\ sim_count \in 1..MaxSimCount
    /\ McStart

NextMC ==
    \/ TrialBegin
    \/ \E ret \in Returns : TrialStep(ret)
    \/ TrialEnd
    \/ McFinish

SpecMC == InitMC /\ [][NextMC]_vars

---------------------------------------------------------------------------
(* Rolling-return analysis (lines 245-267).  df_res['Net Worth'] is kept   *)
(* by the sign of each value, which is what decides whether a rolling CAGR *)
(* is a number, an infinity or NaN.  Position i of the frame is element    *)
(* i + 1 of net_worth_col.                                                 *)

MaxRollYears == 2
RollExtra    == 2               \* rows beyond the window, and free rows at each end
Signs        == {"pos", "zero", "neg"}

\* line 248
window_days == roll_years * TradingDaysPerYear

\* Faulty variant: a frame of exactly `window` rows accepted.
HasEnoughHistoryInclusive(n, w) == n >= w

\* line 249
HasEnoughHistory(n, w) == n > w

\* Series.shift(window_days) at position i (line 250)
Shifted(col, w, i) == IF i < w THEN "nan" ELSE col[i - w + 1]

\* float division a / b (line 250)
Ratio(a, b) ==
    IF b = "nan" THEN "nan"
    ELSE IF b = "zero"
         THEN (IF a = "zero" THEN "nan" ELSE IF a = "pos" THEN "+inf" ELSE "-inf")
    ELSE IF a = "zero" THEN "zero"
    ELSE IF a = b THEN "pos" ELSE "neg"

\* Series.pow(1 / roll_years) (line 250): a negative finite base under a
\* fractional exponent is NaN, and pow(-inf, y) is +inf for such y.
Pow(x, years) ==
    IF years = 1 THEN x
    ELSE IF x = "neg" THEN "nan"
    ELSE IF x = "-inf" THEN "+inf"
    ELSE x

\* df_res['Rolling_CAGR'] at position i: "nan", "inf" or "num" (line 250)
RollingCagr(col, w, years, i) ==
    LET p == Pow(Ratio(col[i + 1], Shifted(col, w, i)), years)
    IN  IF p = "nan" THEN "nan"
        ELSE IF p \in {"+inf", "-inf"} THEN "inf"
        ELSE "num"

Positions(n) == [k \in 1..n |-> k - 1]

\* dropna(subset=['Rolling_CAGR']) (line 251): the positions kept, in order
DropNa(col, w, years) ==
    LET Keep(i) == RollingCagr(col, w, years, i) # "nan"
    IN  SelectSeq(Positions(Len(col)), Keep)

\* lines 249-267
RollCompute ==
    /\ rolling.pc = "ready"
    /\ rolling' =
          IF HasEnoughHistory(Len(net_worth_col), window_days)
          THEN [pc |-> "computed",
                df_rolling |-> DropNa(net_worth_col, window_days, roll_years)]
          ELSE [pc |-> "insufficient", df_rolling |-> <<>>]
    /\ UNCHANGED <<cfgvars, simvars, mcvars, roll_years, net_worth_col>>

\* lines 253-265: the statistics of df_rolling (the mean of no value is NaN)
RollShow ==
    /\ rolling.pc = "computed"
    /\ rolling' = [pc |-> "shown", df_rolling |-> rolling.df_rolling,
                   stats |-> IF rolling.df_rolling = <<>> THEN "nan" ELSE "num"]
    /\ UNCHANGED <<cfgvars, simvars, mcvars, roll_years, net_worth_col>>

\* A net-worth column of n rows: the first and last RollExtra positions that
\* a rolling value can read are free, the rows between are positive.
FreePositions(n, w) == {i \in 0..(n - 1) : i < RollExtra \/ i >= w}

InitRoll ==
    /\ initial_capital = R(100)
    /\ monthly_cashflow = Zero
    /\ Leverage(TRUE)
    /\ SimDone
    /\ McIdle
    /\ roll_years \in 1..MaxRollYears
    /\ \E n \in (window_days - 1)..(window_days + RollExtra) :
          \E f \in [FreePositions(n, window_days) -> Signs] :
              net_worth_col =
                  [k \in 1..n |-> IF (k - 1) \in DOMAIN f THEN f[k - 1] ELSE "pos"]
    /\ rolling = [pc |-> "ready", df_rolling |-> <<>>]

NextRoll ==
    \/ RollCompute
    \/ RollShow

SpecRoll == InitRoll /\ [][NextRoll]_vars

---------------------------------------------------------------------------
(* Claims about the back-test loop.                                        *)

Recorded == n_rows > 0

MonthDiffers == date.m # prev_date.m \/ date.y # prev_date.y
YearDiffers  == date.y # prev_date.y

\* C1 (as stated): on every day whose cash is negative at valuation while
\* total_assets > 0 a rebalance is executed, so no such day records negative
\* cash, whatever the rebalancing policy.
C1_LiquidityGuard ==
    (Recorded /\ RLt(Zero, day.total_assets)) =>
        /\ RLt(day.cash, Zero) => day.rebalanced
        /\ RLe(Zero, rec.Cash)

\* C2: every daily record's net worth equals the recorded cash plus the
\* market value of the holdings at the row's prices minus the loan balance,
\* taken from the state when the record is appended (after any rebalance).
C2_NetWorthIdentity ==
    Recorded =>
        /\ rec.Cash = current_cash
        /\ rec.NetWorth =
              RSub(RAdd(rec.Cash, StockVal(shares, row)), loan_amount)

\* C2 witness: a record appended on a day whose rebalance moved both cash and
\* shares, with a loan outstanding.
C2_Witness ==
    /\ Recorded /\ day.rebalanced /\ use_leverage
    /\ rec.Cash # day.cash
    /\ shares # InitialShares(first_prices)

\* C3 (as stated): with leverage on, every month-boundary event reduces the
\* loan balance by a positive principal portion and never takes it below 0.
C3_LoanAmortized ==
    [][(use_leverage /\ RLt(Zero, loan_amount)
          /\ n_rows' = n_rows + 1 /\ day'.is_month_start)
        => (RLt(loan_amount', loan_amount) /\ RLe(Zero, loan_amount'))]_vars

\* C4 (as stated): a row applies the monthly cash flow iff its calendar month
\* differs from the previous row's month.
C4_MonthBoundary ==
    (n_rows > 1) => (day.is_month_start <=> MonthDiffers)

\* C5 (as stated): under yearly frequency with the threshold off a rebalance is
\* executed on a row iff its calendar year differs from the previous row's
\* year (and total_assets > 0).
C5_YearlyRebalance ==
    (n_rows > 1 /\ rebalance_mode = "Yearly" /\ ~threshold_mode) =>
        (day.rebalanced <=> (YearDiffers /\ RLt(Zero, day.total_assets)))

Deviates(value, total, target) ==
    RLt(threshold_pct, RAbs(RSub(RDiv(value, total), target)))

\* C6 (as stated): with the threshold on and total_assets > 0 the decision is
\* true iff the frequency clause fires, or an asset's weight deviates from its
\* target by more than threshold_pct, or the cash weight deviates from the cash
\* target weight by more than threshold_pct.
C6_DriftTrigger ==
    (Recorded /\ threshold_mode /\ RLt(Zero, day.total_assets)) =>
        (day.do_rebalance <=>
            \/ FrequencyClause(date)
            \/ \E i \in Assets :
                  Deviates(day.asset_vals[i], day.total_assets, Weight(i))
            \/ Deviates(day.cash, day.total_assets, RDiv(R(weight_cash), R(100))))

\* C7: from any state with total_assets > 0 and for any price row (the
\* current row included), the
\* rebalance step leaves cash + market value equal to total_assets, and a
\* second application on the same row, with total_assets recomputed from the
\* result, leaves shares and cash unchanged.
C7_RebalanceIdempotent ==
    Recorded =>
        \A r \in [Assets -> Prices] \cup {row} :
            LET ta == RAdd(current_cash, StockVal(shares, r))
                s1 == RebalanceShares(ta, r)
                c1 == RebalanceCash(ta)
                t1 == RAdd(c1, StockVal(s1, r))
            IN  RLt(Zero, ta) =>
                    /\ t1 = ta
                    /\ RebalanceShares(t1, r) = s1
                    /\ RebalanceCash(t1) = c1

\* C7 witness: a day on which the loop executed the rebalance step, with a
\* cash sleeve and with prices that differ from the first row's.
C7_Witness ==
    /\ Recorded /\ day.rebalanced
    /\ weight_cash > 0
    /\ row # first_prices
    /\ current_cash = RebalanceCash(day.total_assets)
    /\ shares = RebalanceShares(day.total_assets, row)

C8Config ==
    /\ weights = <<50, 50>> /\ initial_capital = R(1000000)
    /\ monthly_cashflow = Zero /\ ~use_leverage
    /\ rebalance_mode = "None" /\ ~threshold_mode

C8Ends == row[1] = RMul(R(2), first_prices[1]) /\ RMul(R(2), row[2]) = first_prices[2]

\* C8: in the buy-and-hold scenario the share counts never change after
\* initialisation, and a record on which asset 1 stands at twice and asset 2
\* at half its first price has net worth 1,250,000, whatever came before.
C8_BuyAndHold ==
    (C8Config /\ Recorded) =>
        /\ shares = InitialShares(first_prices)
        /\ C8Ends => rec.NetWorth = R(1250000)

\* C8 witness: the end condition met on the third row, after a month start
\* and a row of other prices.
C8_Witness ==
    /\ C8Config /\ n_rows = 3 /\ C8Ends
    /\ prev_date.d = 1
    /\ rec.NetWorth = R(1250000)

---------------------------------------------------------------------------
(* Claims about the stress test.                                           *)

\* The step the trial loop executed last (mc.d is not advanced on a break).
StepRun  == mc.pc \in {"steps", "end"} /\ mc.path_len > 1
LastStep == mc.path_len - 2

Truncated ==
    /\ mc.pc = "end" /\ ~mc.survived
    /\ mc.path_last = Zero /\ mc.nav = Zero
    /\ mc.d = LastStep

NetInflow ==
    IF use_leverage
    THEN RSub(monthly_cashflow, RDiv(RMul(loan_amount, loan_rate), R(12)))
    ELSE monthly_cashflow

\* C9 (as stated): in any configuration, a trial that draws a -100% return
\* at step d is truncated at step d with final value 0 and runs no further step.
C9_RuinAnyConfig ==
    (StepRun /\ mc.last_ret = R(-1)) => Truncated

\* C9 (amended): a -100% return at step d truncates the trial at step d with
\* final value 0 unless d is a cash-flow step with a positive net inflow; and
\* a finished trial is counted in success_count iff it ran all sim_days steps
\* with nav > 0 after each.
C9_RuinDetection ==
    /\ (StepRun /\ mc.last_ret = R(-1)
          /\ ~(IsCashFlowStep(LastStep) /\ RLt(Zero, NetInflow))) => Truncated
    /\ (mc.pc = "loop" /\ mc.i > 0) =>
          (mc.counted <=> (mc.path_len = sim_days + 1 /\ mc.path_positive))
    /\ (mc.pc = "loop" /\ mc.i > 0 /\ mc.path_last = Zero) => ~mc.counted

\* C9 witness: a trial wiped out by a -100% day after its first cash-flow
\* step has been recorded as a failure.
C9_Witness ==
    /\ mc.pc = "loop" /\ mc.i > 0
    /\ mc.last_ret = R(-1) /\ mc.path_len > CashFlowPeriod + 1
    /\ mc.path_last = Zero /\ ~mc.counted

---------------------------------------------------------------------------
(* Claims about the rolling-return analysis.                               *)

RollDone == rolling.pc # "ready"
NRows    == Len(net_worth_col)

Increasing(seq) == \A k \in 1..(Len(seq) - 1) : seq[k] < seq[k + 1]
Values(seq)     == {seq[k] : k \in 1..Len(seq)}

\* C10 (as stated): exactly `window` rows give the insufficient-data outcome,
\* and N > window rows give one value for every position i >= window, in
\* order: N - window values.
C10_OneValuePerDay ==
    RollDone =>
        /\ NRows <= window_days => rolling.pc = "insufficient"
        /\ NRows > window_days =>
              /\ rolling.pc # "insufficient"
              /\ Increasing(rolling.df_rolling)
              /\ Values(rolling.df_rolling) = window_days..(NRows - 1)

\* The ratio net_worth[i] / net_worth[i - window] has no rolling CAGR: it is
\* 0/0, or it is negative and the exponent 1/holding_years is fractional.
Undefined(i) ==
    LET a == net_worth_col[i + 1]
        b == net_worth_col[i - window_days + 1]
    IN  \/ a = "zero" /\ b = "zero"
        \/ roll_years > 1 /\ ((a = "pos" /\ b = "neg") \/ (a = "neg" /\ b = "pos"))

\* C10 (amended): up to `window` rows give the insufficient-data outcome;
\* N > window rows give, in order, one value for every position i >= window
\* whose ratio is defined, so N - window values when net worth is positive
\* throughout.
C10_RollingWindow ==
    RollDone =>
        /\ NRows <= window_days => rolling.pc = "insufficient"
        /\ NRows > window_days =>
              /\ rolling.pc # "insufficient"
              /\ Increasing(rolling.df_rolling)
              /\ Values(rolling.df_rolling) =
                    {i \in window_days..(NRows - 1) : ~Undefined(i)}

\* C10 witness: window + 1 rows of positive net worth gave exactly one value,
\* at position `window`.
C10_Witness ==
    /\ rolling.pc = "shown"
    /\ NRows = window_days + 1
    /\ net_worth_col[1] = "pos" /\ net_worth_col[NRows] = "pos"
    /\ rolling.df_rolling = <<window_days>>

====
